---- MODULE Spec2Model ----
(***************************************************************************)
(* fastuator: the Fastuator class of src/fastuator/core.py.                *)
(*                                                                         *)
(* State: the FastAPI application the toolkit is attached to (its routes,  *)
(* its middleware list, the marker on app.state), the process-wide         *)
(* prometheus REGISTRY, the Fastuator instances built so far, and the      *)
(* requests the event loop is serving: the tasks asyncio.gather launched   *)
(* for each, every one under asyncio.wait_for(check(), timeout=5.0), the   *)
(* order in which they resolved, and the clock.                            *)
(*                                                                         *)
(* Specifications: SpecSetup is the construction phase (Fastuator(app)     *)
(* called one or more times on one application), Spec is the serving phase *)
(* of an application constructed once with one request at a time,          *)
(* SpecConcurrent the serving phase with two requests in flight,           *)
(* SpecMetrics the serving phase with the metrics middleware installed.    *)
(***************************************************************************)
EXTENDS Integers, Sequences, FiniteSets, TLC

VARIABLES
    underPytest,      \* "pytest" is among sys.modules (core.py:88)
    REGISTRY,         \* names held by prometheus_client's process-wide REGISTRY
    test_registries,  \* CollectorRegistry objects created under pytest (core.py:91)
    app,              \* the FastAPI application: routes, user_middleware, state marker
    insts,            \* the Fastuator instances constructed on app, in order
    calls,            \* one entry per Fastuator(app, ...) call: its arguments and outcome
    inv,              \* the request being served: endpoint, tasks, resolution order
    elapsed,          \* time units since the request being served started
    resp,             \* the last response sent (cleared when the next request starts)
    lastHealth,       \* history: the status the last completed health request computed
    other,            \* a second request in flight beside inv, with its own clock
    passed            \* history: the requests the metrics middleware has seen complete

vars == <<underPytest, REGISTRY, test_registries, app, insts, calls, inv, elapsed, resp,
          lastHealth, other, passed>>

setupVars == <<underPytest, REGISTRY, test_registries, app, insts, calls>>

(***************************************************************************)
(* Bounds of the model.                                                    *)
(***************************************************************************)
MaxAttach == 2   \* Fastuator(app, ...) calls on the one application (SpecSetup)
MaxTime == 7     \* the clock stops here (only a missing timeout lets it get so far)
MaxRequests == 3 \* requests served through the metrics middleware (SpecMetrics)

(***************************************************************************)
(* Program constants.                                                      *)
(***************************************************************************)
TIMEOUT == 5     \* asyncio.wait_for(check(), timeout=5.0)

\* gather without return_exceptions.
ReturnExceptionsOff == FALSE

\* return_exceptions=True of the three asyncio.gather calls.
ReturnExceptions == TRUE

(***************************************************************************)
(* Check functions.  The three defaults are imported from .checks; the     *)
(* user-supplied ones stand for a named coroutine function, two lambdas    *)
(* (both with __name__ "<lambda>") and a functools.partial object (no      *)
(* __name__ attribute).                                                    *)
(***************************************************************************)
DefaultHealthChecks == <<"cpu_health", "disk_health", "memory_health">>

\* A liveness default equal to the health default.
DefaultLivenessChecksAll == <<"cpu_health", "disk_health", "memory_health">>

DefaultLivenessChecks == <<"cpu_health">>

UserChecks == {"redis_health", "lambda_a", "lambda_b", "partial_db"}

\* hasattr(check, "__name__")
HasName(check) == check # "partial_db"

\* check.__name__
DeclaredName(check) == IF check \in {"lambda_a", "lambda_b"} THEN "<lambda>" ELSE check

\* getattr(check, "__name__", f"check_{i}"), i the 0-based enumerate index
ComponentKey(check, i) ==
    IF HasName(check) THEN DeclaredName(check) ELSE "check_" \o ToString(i)

(***************************************************************************)
(* Optional list arguments: None, or a list (possibly empty).              *)
(***************************************************************************)
None == [some |-> FALSE, val |-> <<>>]

Some(list) == [some |-> TRUE, val |-> list]

\* Python truthiness of `list | None`: None and [] are falsy.
Truthy(arg) == arg.some /\ Len(arg.val) > 0

\* arg or default
\* A default taken only for an omitted (None) argument.
OrDefaultWhenNone(arg, default) == IF arg.some THEN arg.val ELSE default

OrDefault(arg, default) == IF Truthy(arg) THEN arg.val ELSE default

(***************************************************************************)
(* Dictionaries.  A check's result is a Python dict, modelled as a TLA+    *)
(* function from its keys; the components dict of the detailed view is     *)
(* insertion-ordered and is modelled as a sequence of entries.             *)
(***************************************************************************)
NoneValue == "<None>"

\* d.get(key, default)
DictGet(d, key, default) == IF key \in DOMAIN d THEN d[key] ELSE default

\* d[key] = value on an insertion-ordered dict: an existing key keeps its
\* place and takes the new value, a new key is appended.
DictPut(d, key, value) ==
    IF \E j \in 1..Len(d) : d[j].key = key
    THEN [j \in 1..Len(d) |-> IF d[j].key = key THEN [key |-> key, value |-> value] ELSE d[j]]
    ELSE Append(d, [key |-> key, value |-> value])

(***************************************************************************)
(* Construction: Fastuator.__init__ and the registration helpers.          *)
(***************************************************************************)
\* A labelled Counter without a child yet: request_count maps each label
\* tuple that was used to its value.  request_duration is the number of
\* observations of the (unlabelled) Histogram, health_status the Gauge's value.
NoSamples == [labels \in {} |-> 0]

\* counter.labels(method=..., endpoint=..., status=...).inc()
LabelsInc(counter, labels) ==
    IF labels \in DOMAIN counter
    THEN [counter EXCEPT ![labels] = @ + 1]
    ELSE [l \in DOMAIN counter \cup {labels} |->
             IF l = labels THEN 1 ELSE counter[l]]

\* The three collectors __init__ creates: Counter, Histogram, Gauge.
CollectorNames == {"http_requests_total", "http_request_duration_seconds", "app_health_status"}

\* FastAPI(): no route, no middleware, nothing on app.state.
FreshApp == [routes |-> <<>>, user_middleware |-> <<>>, marker |-> FALSE]

\* The routes _register_health_endpoints puts on self.router, k the instance
\* whose handlers (closures over self) they are.
RouterRoutes(k) ==
    << [kind |-> "route", path |-> "/health", inst |-> k],
       [kind |-> "route", path |-> "/liveness", inst |-> k],
       [kind |-> "route", path |-> "/readiness", inst |-> k],
       [kind |-> "route", path |-> "/info", inst |-> k] >>

\* _register_metrics_endpoint: app.mount(f"{prefix}/metrics", make_asgi_app())
register_metrics_endpoint(a, k) ==
    [a EXCEPT !.routes = Append(@, [kind |-> "mount", path |-> "/metrics", inst |-> k])]

\* _register_metrics_middleware: skipped when app.state carries the marker,
\* else the marker is set and the middleware (a closure over self) is added.
register_metrics_middleware(a, k) ==
    IF a.marker
    THEN a
    ELSE [a EXCEPT !.marker = TRUE, !.user_middleware = Append(@, k)]

\* app.include_router(self.router)
include_router(a, k) == [a EXCEPT !.routes = @ \o RouterRoutes(k)]

\* Counter(...), the first collector __init__ creates, raises ValueError
\* (duplicated timeseries) when REGISTRY already holds its name; under pytest
\* every instance registers in a CollectorRegistry of its own.
DuplicatedTimeseries(w) == ~w.underPytest /\ (CollectorNames \cap w.REGISTRY) # {}

\* Fastuator.__init__(app, health_checks, liveness_checks, readiness_checks,
\* enable_metrics) on the world w (the process and its application).
Fastuator_init(w, args) ==
    LET k == Len(w.insts) + 1
        health_checks == OrDefault(args.health_checks, DefaultHealthChecks)
        liveness_checks == OrDefault(args.liveness_checks, DefaultLivenessChecks)
        readiness_checks == OrDefault(args.readiness_checks, health_checks)
        self == [health_checks |-> health_checks,
                 liveness_checks |-> liveness_checks,
                 readiness_checks |-> readiness_checks,
                 registry |-> IF w.underPytest THEN w.test_registries + 1 ELSE 0,
                 request_count |-> NoSamples,
                 request_duration |-> 0,
                 health_status |-> 0]
        withMetrics == IF args.enable_metrics
                       THEN register_metrics_middleware(register_metrics_endpoint(w.app, k), k)
                       ELSE w.app
    IN  IF DuplicatedTimeseries(w)
        THEN [w EXCEPT !.calls = Append(@, [args |-> args, raised |-> "ValueError"])]
        ELSE [underPytest |-> w.underPytest,
              REGISTRY |-> IF w.underPytest THEN w.REGISTRY ELSE w.REGISTRY \cup CollectorNames,
              test_registries |-> IF w.underPytest THEN w.test_registries + 1 ELSE w.test_registries,
              app |-> include_router(withMetrics, k),
              insts |-> Append(w.insts, self),
              calls |-> Append(w.calls, [args |-> args, raised |-> "no"])]

\* A process with a new application and no Fastuator yet.
FreshWorld(pytest) ==
    [underPytest |-> pytest, REGISTRY |-> {}, test_registries |-> 0,
     app |-> FreshApp, insts |-> <<>>, calls |-> <<>>]

\* The arguments the construction phase draws from.
SetupArgs ==
    [health_checks : {None, Some(<<>>), Some(<<"lambda_a", "lambda_b">>)},
     liveness_checks : {None, Some(<<>>), Some(<<"redis_health">>)},
     readiness_checks : {None, Some(<<>>), Some(<<"partial_db", "redis_health">>)},
     enable_metrics : BOOLEAN]

\* The applications the serving phase starts from: the defaults, three empty
\* lists, a health list of two lambdas, and a health list with an unnamed
\* callable, each with enable_metrics=False (the metrics of served requests
\* are SpecMetrics').
ServeArgs ==
    [health_checks : {None}, liveness_checks : {None}, readiness_checks : {None},
     enable_metrics : {FALSE}]
    \cup
    [health_checks : {Some(<<>>)}, liveness_checks : {Some(<<>>)},
     readiness_checks : {Some(<<>>)}, enable_metrics : {FALSE}]
    \cup
    [health_checks : {Some(<<"lambda_a", "lambda_b">>)},
     liveness_checks : {Some(<<"redis_health">>)},
     readiness_checks : {None},
     enable_metrics : {FALSE}]
    \cup
    [health_checks : {Some(<<"partial_db", "redis_health">>)},
     liveness_checks : {None},
     readiness_checks : {Some(<<"redis_health">>)},
     enable_metrics : {FALSE}]

(***************************************************************************)
(* Requests.  asyncio.gather launches one task per check of the list, each *)
(* asyncio.wait_for(check(), timeout=5.0); a task resolves by returning a  *)
(* dict, by raising, or by timing out.                                     *)
(***************************************************************************)
Idle == [endpoint |-> "idle", inst |-> 0, show_details |-> FALSE,
         checks |-> <<>>, tasks |-> <<>>, order |-> <<>>]

NoResp == [endpoint |-> "none"]

\* No second request in flight.
IdleOther == [req |-> Idle, clock |-> 0]

\* What a check may return: a dict with status UP, with status DOWN, with
\* another status value, and a dict with no status key.
CheckDicts ==
    { [status |-> "UP"],
      [status |-> "DOWN", reason |-> "Test failure"],
      [status |-> "UNKNOWN"],
      [reason |-> "no status"] }

\* What a check may raise: an Exception instance (the tests raise RuntimeError).
CheckErrors == { [type |-> "RuntimeError", args |-> <<"Database connection failed">>] }

\* The exception wait_for raises at the deadline: TimeoutError(), constructed
\* with no argument.
TimeoutError == [type |-> "TimeoutError", args |-> <<>>]

\* str(exc) of an exception that overrides neither __str__ nor __init__: the
\* empty string without arguments, str of the argument with one.
ExceptionStr(e) == IF Len(e.args) = 0 THEN "" ELSE e.args[1]

DictResult(d) == [kind |-> "dict", val |-> d]

ExceptionResult(e) == [kind |-> "exception", val |-> e]

NoResult == [kind |-> "none"]

\* isinstance(check_result, Exception)
IsException(r) == r.kind = "exception"

\* [asyncio.wait_for(check(), timeout=5.0) for check in checks] handed to
\* gather: every task is started when gather is called.
Launch(checks, t) ==
    [i \in 1..Len(checks) |->
        [check |-> checks[i], state |-> "pending", started |-> t, result |-> NoResult]]

\* A deadline of twice the timeout: the check's own duration in the test that
\* sleeps 10 units.
DeadlineTwice(task) == task.started + 2 * TIMEOUT

\* wait_for's deadline for a task.
Deadline(task) == task.started + TIMEOUT

\* The first route of the application that matches the path.
Dispatch(a, path) ==
    LET hits == {j \in 1..Len(a.routes) : a.routes[j].path = path}
    IN  IF hits = {} THEN 0
        ELSE a.routes[CHOOSE j \in hits : \A h \in hits : j <= h].inst

Pending(v) == {i \in 1..Len(v.tasks) : v.tasks[i].state = "pending"}

Failed(v) == {i \in 1..Len(v.tasks) : v.tasks[i].state \in {"raised", "timed_out"}}

\* gather is done: with return_exceptions=True when every task has resolved;
\* without it the first exception ends the wait.
GatherDone(v) ==
    IF ReturnExceptions THEN Pending(v) = {} ELSE Pending(v) = {} \/ Failed(v) # {}

\* gather raises into the handler: only without return_exceptions.
GatherRaises(v) == ~ReturnExceptions /\ Failed(v) # {}

\* The handler of request v is suspended in its await of gather.
Waiting(v) == v.endpoint # "idle" /\ ~GatherDone(v)

\* The gather of request v is done and its handler has not resumed yet.
Ready(v) == v.endpoint # "idle" /\ GatherDone(v)

\* The list gather returns: the tasks' results in the order of the arguments.
GatherResults(v) == [i \in 1..Len(v.tasks) |-> v.tasks[i].result]

(***************************************************************************)
(* The handlers' bodies after the gather.                                  *)
(***************************************************************************)
\* health, "Handle exceptions in health checks": an exception becomes
\* {"status": "DOWN", "error": str(exc)}, a returned dict is kept as it is.
ProcessedChecks(results) ==
    [i \in 1..Len(results) |->
        IF IsException(results[i])
        THEN [status |-> "DOWN", error |-> ExceptionStr(results[i].val)]
        ELSE results[i].val]

\* A status list that takes a missing status for UP.
StatusesDefaultUp(processed) ==
    [i \in 1..Len(processed) |-> DictGet(processed[i], "status", "UP")]

\* statuses = [c.get("status", "DOWN") for c in processed_checks]
Statuses(processed) ==
    [i \in 1..Len(processed) |-> DictGet(processed[i], "status", "DOWN")]

\* A reduction that keeps the DOWN an earlier health request computed.
OverallStatusCached(statuses) ==
    IF lastHealth = "DOWN" \/ (\E i \in 1..Len(statuses) : statuses[i] = "DOWN")
    THEN "DOWN" ELSE "UP"

\* A reduction that answers DOWN only when every status is DOWN.
OverallStatusAllDown(statuses) ==
    IF \A i \in 1..Len(statuses) : statuses[i] = "DOWN" THEN "DOWN" ELSE "UP"

\* overall_status = "DOWN" if "DOWN" in statuses else "UP"
OverallStatus(statuses) ==
    IF \E i \in 1..Len(statuses) : statuses[i] = "DOWN" THEN "DOWN" ELSE "UP"

\* The dict comprehension over enumerate(zip(self.health_checks,
\* processed_checks)), built entry by entry in input order.
RECURSIVE ComponentsUpTo(_, _, _)
ComponentsUpTo(checks, processed, n) ==
    IF n = 0
    THEN <<>>
    ELSE DictPut(ComponentsUpTo(checks, processed, n - 1),
                 ComponentKey(checks[n], n - 1), processed[n])

Components(checks, processed) ==
    ComponentsUpTo(checks, processed,
                   IF Len(checks) <= Len(processed) THEN Len(checks) ELSE Len(processed))

\* The dict health returns.
HealthBody(checks, results, show_details) ==
    LET processed == ProcessedChecks(results)
        overall == OverallStatus(Statuses(processed))
    IN  IF show_details
        THEN [status |-> overall, components |-> Components(checks, processed)]
        ELSE [status |-> overall]

\* A gauge that is set to 1 by every health request.
GaugeValueAlwaysUp(overall) == 1

\* self.health_status.set(1 if overall_status == "UP" else 0)
GaugeValue(overall) == IF overall = "UP" THEN 1 ELSE 0

\* A probe loop that fails only on the literal status "DOWN".
ProbeFailsOnlyOnDown(results) ==
    \E i \in 1..Len(results) :
        IsException(results[i]) \/ DictGet(results[i].val, "status", NoneValue) = "DOWN"

\* liveness and readiness: the loop raises HTTPException(503) on the first
\* result that is an exception or whose status is not "UP".
ProbeFails(results) ==
    \E i \in 1..Len(results) :
        IsException(results[i]) \/ DictGet(results[i].val, "status", NoneValue) # "UP"

LivenessDetail == "Liveness check failed"

ReadinessDetail == "Readiness check failed"

\* The response of a probe handler.
ProbeResponse(endpoint, results, detail) ==
    IF ProbeFails(results)
    THEN [endpoint |-> endpoint, code |-> 503, body |-> [detail |-> detail]]
    ELSE [endpoint |-> endpoint, code |-> 200, body |-> [status |-> "UP"]]

\* A health handler that raises HTTPException(503) on DOWN, as the probes do.
HealthResponseRaising(checks, results, show_details) ==
    IF HealthBody(checks, results, show_details).status = "DOWN"
    THEN [endpoint |-> "health", code |-> 503, body |-> [detail |-> "Health check failed"]]
    ELSE [endpoint |-> "health", code |-> 200, body |-> HealthBody(checks, results, show_details)]

\* What health answers: always its dict, with HTTP 200.
HealthResponse(checks, results, show_details) ==
    [endpoint |-> "health", code |-> 200, body |-> HealthBody(checks, results, show_details)]

\* An exception that leaves a handler is answered 500 by the framework.
ServerError(endpoint) ==
    [endpoint |-> endpoint, code |-> 500, body |-> [detail |-> "Internal Server Error"]]

\* The outcomes of importlib.metadata.version("fastuator"): the version of
\* the installed distribution, or PackageNotFoundError.
PackageLookups ==
    { [found |-> TRUE, version |-> "0.0.1"], [found |-> TRUE, version |-> "1.2.3-dev"],
      [found |-> FALSE, version |-> ""] }

\* A lookup whose failure is answered with an empty version.
get_package_version_empty(lookup) == lookup.version

get_package_version(lookup) == IF lookup.found THEN lookup.version ELSE "dev"

\* info: the build part of the dict it returns (the platform fields are the
\* interpreter's).
InfoResponse(lookup) ==
    [endpoint |-> "info", code |-> 200,
     body |-> [build |-> [version |-> get_package_version(lookup)]]]

\* metrics_middleware after call_next returned: one inc() of the labelled
\* counter, one observe() of the histogram.
RecordRequest(self, method, path, status) ==
    [self EXCEPT !.request_count = LabelsInc(@, <<method, path, status>>),
                 !.request_duration = @ + 1]

\* A middleware that records only the responses with status 200.
ThroughMiddlewareOkOnly(ins, a, method, path, r) ==
    [k \in 1..Len(ins) |->
        IF r.code = 200 /\ (\E j \in 1..Len(a.user_middleware) : a.user_middleware[j] = k)
        THEN RecordRequest(ins[k], method, path, r.code)
        ELSE ins[k]]

\* The response r to a request for path leaves through app.user_middleware:
\* every metrics middleware records it on the instance it closes over.  An
\* exception out of the handler (answered 500 by the server) leaves call_next
\* as an exception and skips the recording.
ThroughMiddleware(ins, a, method, path, r) ==
    [k \in 1..Len(ins) |->
        IF r.code # 500 /\ (\E j \in 1..Len(a.user_middleware) : a.user_middleware[j] = k)
        THEN RecordRequest(ins[k], method, path, r.code)
        ELSE ins[k]]

\* 1 when the application has a metrics middleware, else 0.
Middlewares(a) == IF Len(a.user_middleware) > 0 THEN 1 ELSE 0

\* The response with what the model remembers of the request it answers: the
\* time it took, the finished request (tasks, resolution order) and, for
\* health, the handler's processed_checks list.
Sent(r, v, t, processed) ==
    [endpoint |-> r.endpoint, code |-> r.code, body |-> r.body, at |-> t, inv |-> v,
     processed |-> processed]

(***************************************************************************)
(* Construction phase (SpecSetup).                                         *)
(***************************************************************************)
World == [underPytest |-> underPytest, REGISTRY |-> REGISTRY,
          test_registries |-> test_registries, app |-> app, insts |-> insts,
          calls |-> calls]

SetWorld(w) ==
    /\ underPytest' = w.underPytest
    /\ REGISTRY' = w.REGISTRY
    /\ test_registries' = w.test_registries
    /\ app' = w.app
    /\ insts' = w.insts
    /\ calls' = w.calls

InitSetup ==
    /\ underPytest \in BOOLEAN
    /\ REGISTRY = {}
    /\ test_registries = 0
    /\ app = FreshApp
    /\ insts = <<>>
    /\ calls = <<>>
    /\ inv = Idle
    /\ elapsed = 0
    /\ resp = NoResp
    /\ lastHealth = "none"
    /\ other = IdleOther
    /\ passed = 0

\* Fastuator(app, health_checks=..., liveness_checks=..., readiness_checks=...,
\* enable_metrics=...)
Attach(args) ==
    /\ Len(calls) < MaxAttach
    /\ SetWorld(Fastuator_init(World, args))
    /\ UNCHANGED <<inv, elapsed, resp, lastHealth, other, passed>>

NextSetup == \E args \in SetupArgs : Attach(args)

SpecSetup == InitSetup /\ [][NextSetup]_vars

(***************************************************************************)
(* Serving phase (Spec): the application after one Fastuator(app, ...).    *)
(***************************************************************************)
Init ==
    /\ \E pytest \in BOOLEAN, args \in ServeArgs :
          LET w == Fastuator_init(FreshWorld(pytest), args)
          IN  /\ underPytest = w.underPytest
              /\ REGISTRY = w.REGISTRY
              /\ test_registries = w.test_registries
              /\ app = w.app
              /\ insts = w.insts
              /\ calls = w.calls
    /\ inv = Idle
    /\ elapsed = 0
    /\ resp = NoResp
    /\ lastHealth = "none"
    /\ other = IdleOther
    /\ passed = 0

\* A request reaches a handler: the handler calls gather on its check list.
Start(endpoint, path, show_details, list) ==
    /\ inv = Idle
    /\ Dispatch(app, path) # 0
    /\ passed < MaxRequests
    /\ LET k == Dispatch(app, path)
       IN  inv' = [endpoint |-> endpoint, inst |-> k, show_details |-> show_details,
                   checks |-> insts[k][list], tasks |-> Launch(insts[k][list], 0),
                   order |-> <<>>]
    /\ elapsed' = 0
    /\ resp' = NoResp
    /\ UNCHANGED <<setupVars, lastHealth, other, passed>>

\* GET {prefix}/health?show_details=...
GetHealth(show_details) == Start("health", "/health", show_details, "health_checks")

\* A liveness handler that gathers self.health_checks.
GetLivenessOverHealthChecks == Start("liveness", "/liveness", FALSE, "health_checks")

\* GET {prefix}/liveness
GetLiveness == Start("liveness", "/liveness", FALSE, "liveness_checks")

\* GET {prefix}/readiness
GetReadiness == Start("readiness", "/readiness", FALSE, "readiness_checks")

Resolve(i, state, result) ==
    /\ inv' = [inv EXCEPT !.tasks[i].state = state, !.tasks[i].result = result,
                          !.order = Append(@, i)]
    /\ UNCHANGED <<setupVars, elapsed, resp, lastHealth, other, passed>>

\* The i-th check returns a dict before its deadline.
CheckReturns(i, d) ==
    /\ i \in Pending(inv)
    /\ elapsed < Deadline(inv.tasks[i])
    /\ Resolve(i, "returned", DictResult(d))

\* The i-th check raises before its deadline.
CheckRaises(i, e) ==
    /\ i \in Pending(inv)
    /\ elapsed < Deadline(inv.tasks[i])
    /\ Resolve(i, "raised", ExceptionResult(e))

\* wait_for cancels the i-th check at its deadline and raises TimeoutError.
CheckTimesOut(i) ==
    /\ i \in Pending(inv)
    /\ elapsed >= Deadline(inv.tasks[i])
    /\ Resolve(i, "timed_out", ExceptionResult(TimeoutError))

\* Time passes while a handler waits: no handler is ready to resume and no
\* pending task is past its deadline.  The clock of every waiting request
\* advances.
Tick ==
    /\ Waiting(inv) \/ Waiting(other.req)
    /\ ~Ready(inv) /\ ~Ready(other.req)
    /\ elapsed < MaxTime /\ other.clock < MaxTime
    /\ \A i \in Pending(inv) : elapsed < Deadline(inv.tasks[i])
    /\ \A i \in Pending(other.req) : other.clock < Deadline(other.req.tasks[i])
    /\ elapsed' = IF Waiting(inv) THEN elapsed + 1 ELSE elapsed
    /\ other' = IF Waiting(other.req) THEN [other EXCEPT !.clock = @ + 1] ELSE other
    /\ UNCHANGED <<setupVars, inv, resp, lastHealth, passed>>

\* health resumes after the gather, sets the gauge and returns its dict; the
\* response leaves through the middleware.
HealthResponds ==
    /\ inv.endpoint = "health"
    /\ GatherDone(inv)
    /\ IF GatherRaises(inv)
       THEN /\ resp' = Sent(ServerError("health"), inv, elapsed, <<>>)
            /\ insts' = ThroughMiddleware(insts, app, "GET", "/health", ServerError("health"))
            /\ UNCHANGED lastHealth
       ELSE LET results == GatherResults(inv)
                overall == OverallStatus(Statuses(ProcessedChecks(results)))
                r == HealthResponse(inv.checks, results, inv.show_details)
                set == [insts EXCEPT ![inv.inst].health_status = GaugeValue(overall)]
            IN  /\ resp' = Sent(r, inv, elapsed, ProcessedChecks(results))
                /\ insts' = ThroughMiddleware(set, app, "GET", "/health", r)
                /\ lastHealth' = overall
    /\ passed' = passed + Middlewares(app)
    /\ inv' = Idle
    /\ UNCHANGED <<underPytest, REGISTRY, test_registries, app, calls, elapsed, other>>

\* liveness resumes after the gather.
LivenessResponds ==
    /\ inv.endpoint = "liveness"
    /\ GatherDone(inv)
    /\ LET r == IF GatherRaises(inv) THEN ServerError("liveness")
                ELSE ProbeResponse("liveness", GatherResults(inv), LivenessDetail)
       IN  /\ resp' = Sent(r, inv, elapsed, <<>>)
           /\ insts' = ThroughMiddleware(insts, app, "GET", "/liveness", r)
    /\ passed' = passed + Middlewares(app)
    /\ inv' = Idle
    /\ UNCHANGED <<underPytest, REGISTRY, test_registries, app, calls, elapsed,
                   lastHealth, other>>

\* readiness resumes after the gather.
ReadinessResponds ==
    /\ inv.endpoint = "readiness"
    /\ GatherDone(inv)
    /\ LET r == IF GatherRaises(inv) THEN ServerError("readiness")
                ELSE ProbeResponse("readiness", GatherResults(inv), ReadinessDetail)
       IN  /\ resp' = Sent(r, inv, elapsed, <<>>)
           /\ insts' = ThroughMiddleware(insts, app, "GET", "/readiness", r)
    /\ passed' = passed + Middlewares(app)
    /\ inv' = Idle
    /\ UNCHANGED <<underPytest, REGISTRY, test_registries, app, calls, elapsed,
                   lastHealth, other>>

\* GET {prefix}/info: the handler has no await, it answers in one step.
GetInfo(lookup) ==
    /\ inv = Idle
    /\ Dispatch(app, "/info") # 0
    /\ passed < MaxRequests
    /\ LET r == InfoResponse(lookup)
           v == [endpoint |-> "info", inst |-> Dispatch(app, "/info"),
                 show_details |-> FALSE, checks |-> <<>>, tasks |-> <<>>,
                 order |-> <<>>, lookup |-> lookup]
       IN  /\ resp' = Sent(r, v, 0, <<>>)
           /\ insts' = ThroughMiddleware(insts, app, "GET", "/info", r)
    /\ passed' = passed + Middlewares(app)
    /\ UNCHANGED <<underPytest, REGISTRY, test_registries, app, calls, inv, elapsed,
                   lastHealth, other>>

Next ==
    \/ \E show_details \in BOOLEAN : GetHealth(show_details)
    \/ GetLiveness
    \/ GetReadiness
    \/ \E lookup \in PackageLookups : GetInfo(lookup)
    \/ \E i \in 1..Len(inv.tasks), d \in CheckDicts : CheckReturns(i, d)
    \/ \E i \in 1..Len(inv.tasks), e \in CheckErrors : CheckRaises(i, e)
    \/ \E i \in 1..Len(inv.tasks) : CheckTimesOut(i)
    \/ Tick
    \/ HealthResponds
    \/ LivenessResponds
    \/ ReadinessResponds

Spec == Init /\ [][Next]_vars

(***************************************************************************)
(* Serving phase with metrics (SpecMetrics): the application after one     *)
(* Fastuator(app, ...) with enable_metrics=True, serving up to MaxRequests *)
(* requests.                                                               *)
(***************************************************************************)
MetricsArgs ==
    [health_checks |-> Some(<<"redis_health">>), liveness_checks |-> None,
     readiness_checks |-> None, enable_metrics |-> TRUE]

InitMetrics ==
    /\ \E pytest \in BOOLEAN :
          LET w == Fastuator_init(FreshWorld(pytest), MetricsArgs)
          IN  /\ underPytest = w.underPytest
              /\ REGISTRY = w.REGISTRY
              /\ test_registries = w.test_registries
              /\ app = w.app
              /\ insts = w.insts
              /\ calls = w.calls
    /\ inv = Idle
    /\ elapsed = 0
    /\ resp = NoResp
    /\ lastHealth = "none"
    /\ other = IdleOther
    /\ passed = 0

SpecMetrics == InitMetrics /\ [][Next]_vars

(***************************************************************************)
(* Serving phase with two requests in flight (SpecConcurrent).  The event  *)
(* loop runs one handler step at a time; a handler is suspended only in    *)
(* its await of gather, so the steps of the two requests interleave at the *)
(* start of a request, at each resolution of a check and at the resumption *)
(* of a handler.                                                           *)
(***************************************************************************)
\* The application of this phase: one user check for health and readiness,
\* the default liveness check.
ConcurrentArgs ==
    [health_checks |-> Some(<<"redis_health">>), liveness_checks |-> None,
     readiness_checks |-> None, enable_metrics |-> FALSE]

InitConcurrent ==
    /\ \E pytest \in BOOLEAN :
          LET w == Fastuator_init(FreshWorld(pytest), ConcurrentArgs)
          IN  /\ underPytest = w.underPytest
              /\ REGISTRY = w.REGISTRY
              /\ test_registries = w.test_registries
              /\ app = w.app
              /\ insts = w.insts
              /\ calls = w.calls
    /\ inv = Idle
    /\ elapsed = 0
    /\ resp = NoResp
    /\ lastHealth = "none"
    /\ other = IdleOther
    /\ passed = 0

\* A request reaches a handler while another request is in flight.
StartOther(endpoint, path, show_details, list) ==
    /\ other.req = Idle
    /\ Dispatch(app, path) # 0
    /\ passed < MaxRequests
    /\ LET k == Dispatch(app, path)
       IN  other' = [req |-> [endpoint |-> endpoint, inst |-> k,
                              show_details |-> show_details,
                              checks |-> insts[k][list],
                              tasks |-> Launch(insts[k][list], 0), order |-> <<>>],
                     clock |-> 0]
    /\ UNCHANGED <<setupVars, inv, elapsed, resp, lastHealth, passed>>

OtherGetHealth(show_details) ==
    StartOther("health", "/health", show_details, "health_checks")

OtherGetLiveness == StartOther("liveness", "/liveness", FALSE, "liveness_checks")

OtherGetReadiness == StartOther("readiness", "/readiness", FALSE, "readiness_checks")

ResolveOther(i, state, result) ==
    /\ other' = [other EXCEPT !.req.tasks[i].state = state,
                              !.req.tasks[i].result = result,
                              !.req.order = Append(@, i)]
    /\ UNCHANGED <<setupVars, inv, elapsed, resp, lastHealth, passed>>

\* A check of the second request returns, raises or times out.
OtherCheckReturns(i, d) ==
    /\ i \in Pending(other.req)
    /\ other.clock < Deadline(other.req.tasks[i])
    /\ ResolveOther(i, "returned", DictResult(d))

OtherCheckRaises(i, e) ==
    /\ i \in Pending(other.req)
    /\ other.clock < Deadline(other.req.tasks[i])
    /\ ResolveOther(i, "raised", ExceptionResult(e))

OtherCheckTimesOut(i) ==
    /\ i \in Pending(other.req)
    /\ other.clock >= Deadline(other.req.tasks[i])
    /\ ResolveOther(i, "timed_out", ExceptionResult(TimeoutError))

\* The handler of the second request resumes after its gather: health sets
\* the gauge and returns its dict, the probes return or raise HTTPException.
\* Its response goes to its own client and is not kept.
OtherResponds ==
    /\ Ready(other.req)
    /\ LET v == other.req
           path == "/" \o v.endpoint
           results == GatherResults(v)
           overall == OverallStatus(Statuses(ProcessedChecks(results)))
       IN  IF GatherRaises(v)
           THEN /\ insts' = ThroughMiddleware(insts, app, "GET", path,
                                              ServerError(v.endpoint))
                /\ UNCHANGED lastHealth
           ELSE IF v.endpoint = "health"
           THEN /\ insts' = ThroughMiddleware(
                                [insts EXCEPT ![v.inst].health_status = GaugeValue(overall)],
                                app, "GET", path,
                                HealthResponse(v.checks, results, v.show_details))
                /\ lastHealth' = overall
           ELSE /\ insts' = ThroughMiddleware(
                                insts, app, "GET", path,
                                ProbeResponse(v.endpoint, results,
                                              IF v.endpoint = "liveness"
                                              THEN LivenessDetail ELSE ReadinessDetail))
                /\ UNCHANGED lastHealth
    /\ passed' = passed + Middlewares(app)
    /\ other' = IdleOther
    /\ UNCHANGED <<underPytest, REGISTRY, test_registries, app, calls, inv, elapsed, resp>>

NextConcurrent ==
    \/ Next
    \/ \E show_details \in BOOLEAN : OtherGetHealth(show_details)
    \/ OtherGetLiveness
    \/ OtherGetReadiness
    \/ \E i \in 1..Len(other.req.tasks), d \in CheckDicts : OtherCheckReturns(i, d)
    \/ \E i \in 1..Len(other.req.tasks), e \in CheckErrors : OtherCheckRaises(i, e)
    \/ \E i \in 1..Len(other.req.tasks) : OtherCheckTimesOut(i)
    \/ OtherResponds

SpecConcurrent == InitConcurrent /\ [][NextConcurrent]_vars

(***************************************************************************)
(* Properties.  They read the last response (resp) together with the       *)
(* finished request it answers (resp.inv): what each task of the gather    *)
(* did, and in which order the tasks resolved.                             *)
(***************************************************************************)
Tasks(v) == {v.tasks[i] : i \in 1..Len(v.tasks)}

\* The check returned a dict with the given status within the timeout.
ReturnedStatus(task, status) ==
    /\ task.state = "returned"
    /\ "status" \in DOMAIN task.result.val
    /\ task.result.val.status = status

\* The check raised or timed out.
RaisedOrTimedOut(task) == task.state \in {"raised", "timed_out"}

\* Every check of the request had one of the four outcomes: returned UP,
\* returned DOWN, raised, timed out.
FourOutcomes(v) ==
    \A task \in Tasks(v) :
        ReturnedStatus(task, "UP") \/ ReturnedStatus(task, "DOWN") \/ RaisedOrTimedOut(task)

\* C1: when every check of a health request returned UP, returned DOWN, raised
\* or timed out, the status health answers is DOWN if and only if at least one
\* check returned DOWN, raised or timed out, and UP otherwise.
C1_AggregateDownIff ==
    (resp.endpoint = "health" /\ FourOutcomes(resp.inv)) =>
        /\ "status" \in DOMAIN resp.body
        /\ resp.body.status \in {"UP", "DOWN"}
        /\ resp.body.status = "DOWN" <=>
              \E task \in Tasks(resp.inv) :
                  ReturnedStatus(task, "DOWN") \/ RaisedOrTimedOut(task)

\* A health request over three checks, one returning UP, one returning DOWN,
\* one timing out, answered DOWN.
C1_Witness ==
    /\ resp.endpoint = "health"
    /\ FourOutcomes(resp.inv)
    /\ Len(resp.inv.tasks) = 3
    /\ \E t1, t2, t3 \in Tasks(resp.inv) :
          /\ ReturnedStatus(t1, "UP")
          /\ ReturnedStatus(t2, "DOWN")
          /\ t3.state = "timed_out"
    /\ resp.body.status = "DOWN"

\* The status of the result health records for a task: the dict the check
\* returned, or the synthetic failure record.
RecordedNonUp(task) ==
    \/ RaisedOrTimedOut(task)
    \/ task.state = "returned" /\ ~ReturnedStatus(task, "UP")

\* C2: the status health answers is DOWN whenever a recorded result has a
\* status other than UP (any value, not only the literal DOWN), and UP only
\* when every recorded result has status UP.
C2_AnyNonUpIsDown ==
    resp.endpoint = "health" =>
        (resp.body.status = "DOWN" <=> \E task \in Tasks(resp.inv) : RecordedNonUp(task))

\* C3: health never raises: whatever its checks do (return any dict, raise,
\* time out), the request is answered 200 with a body whose status is UP or
\* DOWN.
C3_HealthAlwaysAnswers200 ==
    resp.endpoint = "health" =>
        /\ resp.code = 200
        /\ "status" \in DOMAIN resp.body
        /\ resp.body.status \in {"UP", "DOWN"}

\* A health request one of whose checks raised and another timed out,
\* answered 200.
C3_Witness ==
    /\ resp.endpoint = "health"
    /\ \E t1, t2 \in Tasks(resp.inv) : t1.state = "raised" /\ t2.state = "timed_out"
    /\ resp.code = 200
    /\ resp.body.status = "DOWN"

\* C4: a probe answers 200 {status: UP} if and only if every check of its
\* list returned status UP within the timeout; otherwise it answers 503 with
\* the probe's fixed detail.
C4_ProbeVerdict ==
    \A probe \in {"liveness", "readiness"} :
        resp.endpoint = probe =>
            IF \A task \in Tasks(resp.inv) : ReturnedStatus(task, "UP")
            THEN resp.code = 200 /\ resp.body = [status |-> "UP"]
            ELSE /\ resp.code = 503
                 /\ resp.body = [detail |-> IF probe = "liveness"
                                            THEN "Liveness check failed"
                                            ELSE "Readiness check failed"]

\* A readiness request with a check that returned a status that is neither
\* UP nor DOWN and no check that returned DOWN, raised or timed out, answered
\* 503.
C4_Witness ==
    /\ resp.endpoint = "readiness"
    /\ \E task \in Tasks(resp.inv) : ReturnedStatus(task, "UNKNOWN")
    /\ \A task \in Tasks(resp.inv) :
          ReturnedStatus(task, "UNKNOWN") \/ ReturnedStatus(task, "UP")
    /\ resp.code = 503
    /\ resp.body = [detail |-> "Readiness check failed"]

\* C5: the liveness probe runs exactly the checks of the liveness list and
\* its answer is decided by their outcomes alone: whatever the last health
\* request computed over the other checks, liveness answers 200 when every
\* check of the liveness list returned UP and 503 otherwise.
C5_LivenessOnlyLivenessChecks ==
    /\ inv.endpoint = "liveness" =>
          /\ inv.checks = insts[inv.inst].liveness_checks
          /\ \A i \in 1..Len(inv.tasks) : inv.tasks[i].check = inv.checks[i]
    /\ resp.endpoint = "liveness" =>
          /\ resp.inv.checks = insts[resp.inv.inst].liveness_checks
          /\ Len(resp.inv.tasks) = Len(resp.inv.checks)
          /\ \A i \in 1..Len(resp.inv.tasks) : resp.inv.tasks[i].check = resp.inv.checks[i]
          /\ resp.code = 200 <=> \A task \in Tasks(resp.inv) : ReturnedStatus(task, "UP")

Range(seq) == {seq[i] : i \in 1..Len(seq)}

\* The health list and the liveness list share no check, the last health
\* request computed DOWN, and the liveness request after it was answered 200.
C5_Witness ==
    /\ resp.endpoint = "liveness"
    /\ Range(insts[resp.inv.inst].health_checks)
          \cap Range(insts[resp.inv.inst].liveness_checks) = {}
    /\ lastHealth = "DOWN"
    /\ resp.code = 200

\* The metrics mounts among the application's routes.
MetricsMounts == {j \in 1..Len(app.routes) : app.routes[j].kind = "mount"}

\* The registries that hold the three collectors.
CollectorSets == (IF CollectorNames \subseteq REGISTRY THEN 1 ELSE 0) + test_registries

\* C6: after two or more Fastuator(app) calls with metrics enabled on the
\* same application, the application holds exactly one metrics middleware,
\* exactly one metrics mount and one set of collectors.
C6_RegistrationIdempotent ==
    (/\ Len(calls) >= 2
     /\ \A j \in 1..Len(calls) : calls[j].args.enable_metrics /\ calls[j].raised = "no") =>
        /\ Len(app.user_middleware) = 1
        /\ Cardinality(MetricsMounts) = 1
        /\ CollectorSets = 1

\* The middleware alone is registered once, whatever the calls: the part of
\* C6 the marker on app.state does guard.
C6_MiddlewareOnce == Len(app.user_middleware) <= 1

\* The key the detailed view is to give the i-th check of the list.
ExpectedKey(checks, i) ==
    IF HasName(checks[i]) THEN DeclaredName(checks[i]) ELSE "check_" \o ToString(i - 1)

\* C7: in the detailed view the components mapping has exactly one entry per
\* check of the list, the i-th under the check's declared name or, when it has
\* none, under check_<index>.
C7_OneEntryPerCheck ==
    (resp.endpoint = "health" /\ resp.inv.show_details) =>
        /\ Len(resp.body.components) = Len(resp.inv.checks)
        /\ \A i \in 1..Len(resp.inv.checks) :
              resp.body.components[i].key = ExpectedKey(resp.inv.checks, i)

\* The result health records for a task, read off the task itself.
Recorded(task) ==
    IF task.state = "returned"
    THEN task.result.val
    ELSE [status |-> "DOWN", error |-> ExceptionStr(task.result.val)]

\* C8: whatever the order in which the checks resolved, the components
\* mapping lists the checks in the order of the list, each key with the
\* result of its own check.
C8_ComponentsInInputOrder ==
    (resp.endpoint = "health" /\ resp.inv.show_details) =>
        resp.body.components =
            [i \in 1..Len(resp.inv.checks) |->
                [key |-> ExpectedKey(resp.inv.checks, i),
                 value |-> Recorded(resp.inv.tasks[i])]]

\* The same for a list whose keys are pairwise distinct: the ordering itself
\* holds, C8 fails only where two keys collide (C7).
C8_InInputOrderWhenKeysDistinct ==
    (/\ resp.endpoint = "health"
     /\ resp.inv.show_details
     /\ \A i, j \in 1..Len(resp.inv.checks) :
           i # j => ExpectedKey(resp.inv.checks, i) # ExpectedKey(resp.inv.checks, j)) =>
        resp.body.components =
            [i \in 1..Len(resp.inv.checks) |->
                [key |-> ExpectedKey(resp.inv.checks, i),
                 value |-> Recorded(resp.inv.tasks[i])]]

\* C9: a check that raises or times out leaves its siblings alone: when
\* health answers, every check of the list has resolved on its own (returned,
\* raised or timed out), none is left pending, and the record of every check
\* that returned is the dict it returned.
C9_Isolation ==
    /\ resp.endpoint = "health" =>
          /\ resp.code = 200
          /\ Len(resp.processed) = Len(resp.inv.tasks)
          /\ \A i \in 1..Len(resp.inv.tasks) :
                /\ resp.inv.tasks[i].state \in {"returned", "raised", "timed_out"}
                /\ resp.inv.tasks[i].state = "returned" =>
                      resp.processed[i] = resp.inv.tasks[i].result.val
    /\ \A i \in 1..Len(inv.tasks) :
          inv.tasks[i].state = "pending" <=> inv.tasks[i].result = NoResult

\* The first check to resolve raised, and the checks after it went on to
\* return: three checks, the last two recorded as the dicts they returned.
C9_Witness ==
    /\ resp.endpoint = "health"
    /\ Len(resp.inv.tasks) = 3
    /\ resp.inv.order[1] = 1
    /\ resp.inv.tasks[1].state = "raised"
    /\ resp.inv.tasks[2].state = "returned"
    /\ resp.inv.tasks[3].state = "returned"
    /\ resp.processed[2] = [status |-> "UP"]
    /\ resp.processed[3] = [status |-> "DOWN", reason |-> "Test failure"]

\* C10: a health request is answered within the timeout of its start, however
\* many checks the list has; one with a check still running at the timeout is
\* answered DOWN at the timeout.
C10_AnsweredWithinTimeout ==
    /\ inv.endpoint = "health" => elapsed <= TIMEOUT
    /\ resp.endpoint = "health" =>
          /\ resp.at <= TIMEOUT
          /\ (\E task \in Tasks(resp.inv) : task.state = "timed_out") =>
                resp.at = TIMEOUT /\ resp.code = 200 /\ resp.body.status = "DOWN"

\* Three checks, all still running at the timeout: answered DOWN at 5 units.
C10_Witness ==
    /\ resp.endpoint = "health"
    /\ Len(resp.inv.tasks) = 3
    /\ \A task \in Tasks(resp.inv) : task.state = "timed_out"
    /\ resp.at = TIMEOUT
    /\ resp.body.status = "DOWN"

\* C11: for every check that raised or timed out, health records a failure
\* record with status DOWN and an error field that describes the failure: the
\* exception's message for a raised exception, a non-empty description for a
\* timeout.
C11_FailureRecordDescribes ==
    resp.endpoint = "health" =>
        \A i \in 1..Len(resp.inv.tasks) :
            RaisedOrTimedOut(resp.inv.tasks[i]) =>
                /\ DOMAIN resp.processed[i] = {"status", "error"}
                /\ resp.processed[i].status = "DOWN"
                /\ resp.inv.tasks[i].state = "raised" =>
                      resp.processed[i].error = resp.inv.tasks[i].result.val.args[1]
                /\ resp.inv.tasks[i].state = "timed_out" => resp.processed[i].error # ""

\* The part of C11 that holds: the record of a check that raised has status
\* DOWN and the exception's message as its error.
C11_RaisedRecordHasMessage ==
    resp.endpoint = "health" =>
        \A i \in 1..Len(resp.inv.tasks) :
            resp.inv.tasks[i].state = "raised" =>
                resp.processed[i] =
                    [status |-> "DOWN", error |-> "Database connection failed"]

\* C12: every invocation launches every check of its list anew, and its
\* answer follows from the outcomes of its own checks only: whatever earlier
\* invocations answered and whatever another invocation in flight is doing,
\* an invocation whose checks all returned UP answers UP (health: 200 with
\* status UP, liveness and readiness: 200), and one with a check that did not
\* is not answered from an earlier UP.
OwnChecksAllUp(v) == \A i \in 1..Len(v.tasks) : ReturnedStatus(v.tasks[i], "UP")

OwnCheckFailed(v) ==
    \E i \in 1..Len(v.tasks) :
        RaisedOrTimedOut(v.tasks[i]) \/ ReturnedStatus(v.tasks[i], "DOWN")

LaunchedAnew(v) ==
    /\ Len(v.tasks) = Len(v.checks)
    /\ \A i \in 1..Len(v.tasks) :
          /\ v.tasks[i].check = v.checks[i]
          /\ v.tasks[i].state = "pending" => v.tasks[i].result = NoResult

C12_OwnOutcomesOnly ==
    /\ inv.endpoint # "idle" => LaunchedAnew(inv)
    /\ other.req.endpoint # "idle" => LaunchedAnew(other.req)
    /\ resp.endpoint \in {"health", "liveness", "readiness"} =>
          /\ Len(resp.inv.order) = Len(resp.inv.checks)
          /\ OwnChecksAllUp(resp.inv) =>
                /\ resp.code = 200
                /\ resp.endpoint = "health" => resp.body.status = "UP"
          /\ OwnCheckFailed(resp.inv) =>
                IF resp.endpoint = "health"
                THEN resp.body.status = "DOWN"
                ELSE resp.code = 503

\* An invocation answered UP after an earlier health invocation computed DOWN
\* and while another invocation with a failed check is in flight.
C12_Witness ==
    /\ resp.endpoint = "readiness"
    /\ resp.code = 200
    /\ OwnChecksAllUp(resp.inv)
    /\ lastHealth = "DOWN"
    /\ Failed(other.req) # {}
    /\ other.req.endpoint = "readiness"

\* C13: the gauge reflects the last computed aggregate: it is 1 when the most
\* recently completed health invocation computed UP and 0 when it computed
\* DOWN (0 before the first one); every health invocation sets it to the
\* status it answers, and liveness, readiness and info leave it as it is.
Gauge == insts[Dispatch(app, "/health")].health_status

GaugeOf(status) == IF status = "UP" THEN 1 ELSE 0

C13_GaugeReflectsLastHealth ==
    /\ [](Gauge = IF lastHealth = "none" THEN 0 ELSE GaugeOf(lastHealth))
    /\ [][/\ (resp' # resp /\ resp'.endpoint = "health" /\ resp'.code = 200) =>
                /\ Gauge' = GaugeOf(resp'.body.status)
                /\ lastHealth' = resp'.body.status
          /\ (resp' # resp /\ resp'.endpoint \in {"liveness", "readiness", "info"}) =>
                /\ Gauge' = Gauge
                /\ lastHealth' = lastHealth]_vars

\* A failed liveness probe after a health invocation that computed UP: the
\* gauge is still 1.
C13_Witness ==
    /\ resp.endpoint = "liveness"
    /\ resp.code = 503
    /\ lastHealth = "UP"
    /\ Gauge = 1

\* C14: with metrics enabled every request that passes through the
\* middleware is recorded exactly once when it is answered: the counter of
\* its (method, path, status code) key goes up by exactly one, no other key
\* changes, and one duration observation is added; after N completed requests
\* the counters sum to N and the histogram holds N observations.
RECURSIVE SumOver(_, _)
SumOver(counter, keys) ==
    IF keys = {} THEN 0
    ELSE LET l == CHOOSE x \in keys : TRUE
         IN  counter[l] + SumOver(counter, keys \ {l})

CounterTotal(counter) == SumOver(counter, DOMAIN counter)

CounterAt(counter, labels) == IF labels \in DOMAIN counter THEN counter[labels] ELSE 0

\* The instance the metrics middleware closes over.
Recorder == insts[app.user_middleware[1]]

C14_RecordedExactlyOnce ==
    /\ [](/\ Len(app.user_middleware) = 1
          /\ CounterTotal(Recorder.request_count) = passed
          /\ Recorder.request_duration = passed)
    /\ [][passed' # passed =>
            LET key == <<"GET", "/" \o resp'.endpoint, resp'.code>>
            IN  /\ passed' = passed + 1
                /\ resp'.endpoint \in {"health", "liveness", "readiness", "info"}
                /\ CounterAt(Recorder.request_count', key) =
                      CounterAt(Recorder.request_count, key) + 1
                /\ DOMAIN Recorder.request_count' = DOMAIN Recorder.request_count \cup {key}
                /\ \A l \in DOMAIN Recorder.request_count :
                      l # key => Recorder.request_count'[l] = Recorder.request_count[l]
                /\ Recorder.request_duration' = Recorder.request_duration + 1]_vars

\* Three requests answered, two of them with the same key and one a failed
\* probe.
C14_Witness ==
    /\ passed = 3
    /\ CounterAt(Recorder.request_count, <<"GET", "/readiness", 503>>) = 1
    /\ CounterAt(Recorder.request_count, <<"GET", "/health", 200>>) = 2
    /\ Recorder.request_duration = 3

\* C15: without a readiness list the readiness probe runs exactly the list of
\* the health endpoint, which is the user's health list when one was given
\* and the CPU, disk and memory checks otherwise; without a liveness list the
\* liveness probe runs the CPU check alone, whatever the health list is.
ConstructedWith == calls[1].args

\* The user's health list when a non-empty one was given (an empty one is
\* replaced like an omitted one, see C19).
HealthListRun ==
    IF ConstructedWith.health_checks = None \/ ConstructedWith.health_checks.val = <<>>
    THEN <<"cpu_health", "disk_health", "memory_health">>
    ELSE ConstructedWith.health_checks.val

RunsExactly(v, list) ==
    /\ v.checks = list
    /\ [i \in 1..Len(v.tasks) |-> v.tasks[i].check] = list

DefaultsRespected(v) ==
    /\ v.endpoint = "health" => RunsExactly(v, HealthListRun)
    /\ (v.endpoint = "readiness" /\ ConstructedWith.readiness_checks = None) =>
          RunsExactly(v, HealthListRun)
    /\ (v.endpoint = "liveness" /\ ConstructedWith.liveness_checks = None) =>
          RunsExactly(v, <<"cpu_health">>)

C15_DefaultCheckLists ==
    /\ DefaultsRespected(inv)
    /\ resp.endpoint \in {"health", "liveness", "readiness"} => DefaultsRespected(resp.inv)

\* A readiness probe answered over the user's health list, and the liveness
\* list of the same application the CPU check alone.
C15_Witness ==
    /\ resp.endpoint = "readiness"
    /\ ConstructedWith.readiness_checks = None
    /\ ConstructedWith.health_checks = Some(<<"lambda_a", "lambda_b">>)
    /\ resp.inv.checks = <<"lambda_a", "lambda_b">>
    /\ Len(resp.inv.order) = 2

\* A liveness probe answered over the CPU check alone on an application with
\* a user health list.
C15_WitnessLiveness ==
    /\ resp.endpoint = "liveness"
    /\ ConstructedWith.liveness_checks = None
    /\ ConstructedWith.health_checks = Some(<<"partial_db", "redis_health">>)
    /\ resp.inv.checks = <<"cpu_health">>

\* C16: version resolution never surfaces an error: the info endpoint answers
\* 200 with the installed distribution's version when the lookup finds it and
\* with the literal "dev" when the lookup fails with PackageNotFoundError.
C16_VersionOrDev ==
    resp.endpoint = "info" =>
        /\ resp.code = 200
        /\ resp.inv.lookup.found => resp.body.build.version = resp.inv.lookup.version
        /\ ~resp.inv.lookup.found => resp.body.build.version = "dev"

\* An info request answered while the package is not installed.
C16_Witness ==
    /\ resp.endpoint = "info"
    /\ ~resp.inv.lookup.found
    /\ resp.body.build.version = "dev"

\* C17: health and readiness agree: over the same check list and the same
\* outcomes of the checks, readiness answers 200 exactly when health reports
\* UP and 503 exactly when health reports DOWN, whatever the checks returned
\* or raised and whichever timed out.
SameListAsHealth(k) == insts[k].readiness_checks = insts[k].health_checks

\* The answer of the readiness handler to the results a gather returned.
ReadinessOn(results) == ProbeResponse("readiness", results, ReadinessDetail)

\* The answer of the health handler to the results a gather returned.
HealthOn(v) == HealthResponse(v.checks, GatherResults(v), FALSE)

Agree(healthStatus, readinessCode) ==
    /\ readinessCode = 200 <=> healthStatus = "UP"
    /\ readinessCode = 503 <=> healthStatus = "DOWN"

C17_ReadinessAgreesWithHealth ==
    /\ (resp.endpoint = "health" /\ SameListAsHealth(resp.inv.inst)) =>
          Agree(resp.body.status, ReadinessOn(GatherResults(resp.inv)).code)
    /\ (resp.endpoint = "readiness" /\ SameListAsHealth(resp.inv.inst)) =>
          Agree(HealthOn(resp.inv).body.status, resp.code)

\* The part of C17 that holds: the two agree whenever no check returned a
\* status other than UP and DOWN.
C17_AgreeOnUpAndDown ==
    (/\ resp.endpoint \in {"health", "readiness"}
     /\ SameListAsHealth(resp.inv.inst)
     /\ \A i \in 1..Len(resp.inv.tasks) : ~ReturnedStatus(resp.inv.tasks[i], "UNKNOWN")) =>
        Agree(HealthOn(resp.inv).body.status, ReadinessOn(GatherResults(resp.inv)).code)

\* C18: a check result without a status field is a failure everywhere: health
\* reports DOWN for it, liveness and readiness answer 503.
NoStatus(task) == task.state = "returned" /\ "status" \notin DOMAIN task.result.val

C18_MissingStatusFails ==
    (/\ resp.endpoint \in {"health", "liveness", "readiness"}
     /\ \E i \in 1..Len(resp.inv.tasks) : NoStatus(resp.inv.tasks[i])) =>
        IF resp.endpoint = "health"
        THEN resp.code = 200 /\ resp.body.status = "DOWN"
        ELSE resp.code = 503

\* A health request answered DOWN where one check returned a dict without
\* status and every other check returned UP.
C18_Witness ==
    /\ resp.endpoint = "health"
    /\ resp.body.status = "DOWN"
    /\ Len(resp.inv.tasks) = 3
    /\ NoStatus(resp.inv.tasks[2])
    /\ ReturnedStatus(resp.inv.tasks[1], "UP")
    /\ ReturnedStatus(resp.inv.tasks[3], "UP")

\* A liveness probe answered 503 for a check that returned a dict without
\* status.
C18_WitnessProbe ==
    /\ resp.endpoint = "liveness"
    /\ resp.code = 503
    /\ NoStatus(resp.inv.tasks[1])

\* C19: no endpoint runs over an empty check list: an explicitly empty list
\* for health, liveness or readiness is replaced by the default like an
\* omitted one (health: CPU, disk, memory; liveness: CPU; readiness: the
\* health list), every list of a constructed instance has at least one
\* check, and no request is answered UP or 200 without a check having run.
Omitted(arg) == arg = None \/ arg = Some(<<>>)

C19_NoEmptyCheckList ==
    /\ \A k \in 1..Len(insts) :
          /\ Len(insts[k].health_checks) >= 1
          /\ Len(insts[k].liveness_checks) >= 1
          /\ Len(insts[k].readiness_checks) >= 1
    /\ Omitted(ConstructedWith.health_checks) =>
          insts[1].health_checks = <<"cpu_health", "disk_health", "memory_health">>
    /\ Omitted(ConstructedWith.liveness_checks) =>
          insts[1].liveness_checks = <<"cpu_health">>
    /\ Omitted(ConstructedWith.readiness_checks) =>
          insts[1].readiness_checks = insts[1].health_checks
    /\ inv.endpoint # "idle" => Len(inv.tasks) >= 1
    /\ resp.endpoint \in {"health", "liveness", "readiness"} =>
          /\ Len(resp.inv.tasks) >= 1
          /\ Len(resp.inv.order) >= 1

\* An application built with three explicitly empty lists answers its
\* liveness probe over the CPU check.
C19_Witness ==
    /\ ConstructedWith.health_checks = Some(<<>>)
    /\ ConstructedWith.liveness_checks = Some(<<>>)
    /\ ConstructedWith.readiness_checks = Some(<<>>)
    /\ resp.endpoint = "liveness"
    /\ resp.code = 200
    /\ resp.inv.checks = <<"cpu_health">>
    /\ insts[1].readiness_checks = <<"cpu_health", "disk_health", "memory_health">>

\* C20: the marker on app.state is set exactly when the metrics middleware
\* has been registered; an attachment with metrics disabled registers no
\* middleware, mounts no metrics endpoint and leaves the marker as it is; and
\* after any sequence of attachments to one application the number of
\* middleware registrations is 1 if at least one attachment had metrics
\* enabled and 0 otherwise.
Attached(j) == calls'[j]

DisabledAttachAddsNothing ==
    (Len(calls') = Len(calls) + 1 /\ ~Attached(Len(calls')).args.enable_metrics) =>
        /\ app'.marker = app.marker
        /\ app'.user_middleware = app.user_middleware
        /\ Cardinality({j \in 1..Len(app'.routes) : app'.routes[j].kind = "mount"}) =
              Cardinality(MetricsMounts)

C20_MarkerAndMiddlewareCount ==
    /\ [](/\ app.marker <=> Len(app.user_middleware) >= 1
          /\ Len(app.user_middleware) =
                IF \E j \in 1..Len(calls) : calls[j].args.enable_metrics THEN 1 ELSE 0)
    /\ [][DisabledAttachAddsNothing]_vars

\* The part of C20 that holds: the same over the attachments that completed.
C20_OverCompletedAttachments ==
    /\ [](/\ app.marker <=> Len(app.user_middleware) >= 1
          /\ Len(app.user_middleware) =
                IF \E j \in 1..Len(calls) :
                      calls[j].args.enable_metrics /\ calls[j].raised = "no"
                THEN 1 ELSE 0)
    /\ [][DisabledAttachAddsNothing]_vars

====
